---- MODULE Spec2Model ----
(***************************************************************************)
(* Model of the Gumloop MCP server (src/src/index.ts): the zod schemas of  *)
(* the nine tools, GumloopAPI.makeRequest and the call-tool handler.       *)
(*                                                                         *)
(* Data representation.  A JavaScript value is a pair <<tag, payload>>:    *)
(*   <<"undef", <<>>>>   undefined (a key that is not there)               *)
(*   <<"null",  <<>>>>   null                                              *)
(*   <<"str",   cs>>     a string, cs its sequence of characters           *)
(*   <<"num",   ds>>     a non-negative integer, ds its decimal digits     *)
(*   <<"arr",   vs>>     an array of values                                *)
(*   <<"obj",   es>>     an object, es its entries <<key, value>> in       *)
(*                       insertion order                                   *)
(*   <<"buf",   bs>>     an ArrayBuffer holding the bytes bs               *)
(* A text (JSON text, query string, message) is a sequence of pieces, each *)
(* piece a string: one character, or one word that is never split (a key,  *)
(* a fixed message).                                                       *)
(***************************************************************************)
EXTENDS Integers, Sequences, FiniteSets, TLC

VARIABLES env, phase, exitCode, apiKey, inflight, registry, last

vars == <<env, phase, exitCode, apiKey, inflight, registry, last>>

\* The most calls whose HTTP request is outstanding at the same time.
MaxInFlight == 2

----------------------------------------------------------------------------
(* JavaScript values *)

Undef == <<"undef", <<>>>>
Null == <<"null", <<>>>>
Str(cs) == <<"str", cs>>
Num(ds) == <<"num", ds>>
Arr(vs) == <<"arr", vs>>
Obj(es) == <<"obj", es>>
Buf(bs) == <<"buf", bs>>

Tag(v) == v[1]
Val(v) == v[2]

\* obj[key], undefined when the object has no such key.
Get(obj, key) ==
  IF \E i \in 1..Len(Val(obj)) : Val(obj)[i][1] = key
  THEN Val(obj)[CHOOSE i \in 1..Len(Val(obj)) : Val(obj)[i][1] = key][2]
  ELSE Undef

\* JavaScript truthiness of a value (the values the schemas let through).
Truthy(v) ==
  CASE Tag(v) = "undef" -> FALSE
    [] Tag(v) = "null" -> FALSE
    [] Tag(v) = "str" -> Val(v) # <<>>
    [] Tag(v) = "num" -> \E i \in 1..Len(Val(v)) : Val(v)[i] # "0"
    [] OTHER -> TRUE

RECURSIVE Concat(_)
\* The concatenation of a sequence of sequences.
Concat(ss) == IF ss = <<>> THEN <<>> ELSE Head(ss) \o Concat(Tail(ss))

RECURSIVE Join(_, _)
\* The sequences ss joined with sep between them.
Join(ss, sep) ==
  IF ss = <<>> THEN <<>>
  ELSE IF Len(ss) = 1 THEN ss[1]
  ELSE ss[1] \o sep \o Join(Tail(ss), sep)

Digit(d) == <<"0", "1", "2", "3", "4", "5", "6", "7", "8", "9">>[d + 1]

RECURSIVE Digits(_)
\* The decimal digits of a natural number: `${n}` in a template literal.
Digits(n) == IF n < 10 THEN <<Digit(n)>> ELSE Digits(n \div 10) \o <<Digit(n % 10)>>

----------------------------------------------------------------------------
(* JSON.stringify(value, null, indent) and JSON.parse *)

RECURSIVE Spaces(_)
Spaces(n) == IF n = 0 THEN <<>> ELSE <<" ">> \o Spaces(n - 1)

\* The line break and indentation JSON.stringify puts before an item at
\* nesting depth d: nothing when indent is 0.
Gap(indent, d) == IF indent = 0 THEN <<>> ELSE <<"\n">> \o Spaces(indent * d)

RECURSIVE Stringify(_, _, _)
Stringify(v, indent, d) ==
  CASE Tag(v) = "null" -> <<"null">>
    [] Tag(v) = "str" -> <<"\"">> \o Val(v) \o <<"\"">>
    [] Tag(v) = "num" -> Val(v)
    [] Tag(v) = "buf" -> <<"{", "}">>
    [] Tag(v) = "arr" ->
         IF Val(v) = <<>> THEN <<"[", "]">>
         ELSE <<"[">>
              \o Join([i \in 1..Len(Val(v)) |->
                         Gap(indent, d + 1)
                         \o (IF Tag(Val(v)[i]) = "undef" THEN <<"null">>
                             ELSE Stringify(Val(v)[i], indent, d + 1))],
                      <<",">>)
              \o Gap(indent, d) \o <<"]">>
    [] Tag(v) = "obj" ->
         LET es == SelectSeq(Val(v), LAMBDA e : Tag(e[2]) # "undef")
         IN  IF es = <<>> THEN <<"{", "}">>
             ELSE <<"{">>
                  \o Join([i \in 1..Len(es) |->
                             Gap(indent, d + 1)
                             \o <<"\"", es[i][1], "\"", ":">>
                             \o (IF indent = 0 THEN <<>> ELSE <<" ">>)
                             \o Stringify(es[i][2], indent, d + 1)],
                          <<",">>)
                  \o Gap(indent, d) \o <<"}">>

IsWs(c) == c \in {" ", "\n"}
IsDigit(c) == c \in {"0", "1", "2", "3", "4", "5", "6", "7", "8", "9"}

RECURSIVE SkipWs(_, _)
SkipWs(s, i) == IF i <= Len(s) /\ IsWs(s[i]) THEN SkipWs(s, i + 1) ELSE i

RECURSIVE DigitsEnd(_, _)
\* The first position from i on that holds no digit.
DigitsEnd(s, i) == IF i <= Len(s) /\ IsDigit(s[i]) THEN DigitsEnd(s, i + 1) ELSE i

RECURSIVE QuoteAt(_, _)
\* The first position from i on that holds a double quote (Len(s) + 1 if none).
QuoteAt(s, i) == IF i <= Len(s) /\ s[i] # "\"" THEN QuoteAt(s, i + 1) ELSE i

Fail == [ok |-> FALSE, val |-> Undef, nxt |-> 0]

RECURSIVE ParseValue(_, _), ParseElements(_, _, _), ParseMembers(_, _, _)
\* One JSON value of the text s from position i: [ok, val, nxt], nxt the
\* position after the value.
ParseValue(s, i) ==
  LET j == SkipWs(s, i)
  IN  IF j > Len(s) THEN Fail
      ELSE IF s[j] = "null" THEN [ok |-> TRUE, val |-> Null, nxt |-> j + 1]
      ELSE IF IsDigit(s[j])
        THEN LET k == DigitsEnd(s, j)
             IN  [ok |-> TRUE, val |-> Num(SubSeq(s, j, k - 1)), nxt |-> k]
      ELSE IF s[j] = "\""
        THEN LET k == QuoteAt(s, j + 1)
             IN  IF k > Len(s) THEN Fail
                 ELSE [ok |-> TRUE, val |-> Str(SubSeq(s, j + 1, k - 1)), nxt |-> k + 1]
      ELSE IF s[j] = "["
        THEN LET k == SkipWs(s, j + 1)
             IN  IF k <= Len(s) /\ s[k] = "]"
                 THEN [ok |-> TRUE, val |-> Arr(<<>>), nxt |-> k + 1]
                 ELSE ParseElements(s, j + 1, <<>>)
      ELSE IF s[j] = "{"
        THEN LET k == SkipWs(s, j + 1)
             IN  IF k <= Len(s) /\ s[k] = "}"
                 THEN [ok |-> TRUE, val |-> Obj(<<>>), nxt |-> k + 1]
                 ELSE ParseMembers(s, j + 1, <<>>)
      ELSE Fail

\* The elements of an array after "[" or ",", acc the elements read so far.
ParseElements(s, i, acc) ==
  LET e == ParseValue(s, i)
      k == SkipWs(s, e.nxt)
  IN  IF ~e.ok \/ k > Len(s) THEN Fail
      ELSE IF s[k] = "]"
        THEN [ok |-> TRUE, val |-> Arr(Append(acc, e.val)), nxt |-> k + 1]
      ELSE IF s[k] = ","
        THEN ParseElements(s, k + 1, Append(acc, e.val))
      ELSE Fail

\* The members of an object after "{" or ",", acc the entries read so far.
\* A key is one piece.
ParseMembers(s, i, acc) ==
  LET key == ParseValue(s, i)
      c == SkipWs(s, key.nxt)
  IN  IF ~key.ok \/ Tag(key.val) # "str" \/ Len(Val(key.val)) # 1
         \/ c > Len(s) \/ s[c] # ":"
      THEN Fail
      ELSE LET e == ParseValue(s, c + 1)
               k == SkipWs(s, e.nxt)
               entry == <<Val(key.val)[1], e.val>>
           IN  IF ~e.ok \/ k > Len(s) THEN Fail
               ELSE IF s[k] = "}"
                 THEN [ok |-> TRUE, val |-> Obj(Append(acc, entry)), nxt |-> k + 1]
               ELSE IF s[k] = ","
                 THEN ParseMembers(s, k + 1, Append(acc, entry))
               ELSE Fail

\* JSON.parse(s): [ok, val]; ok is FALSE where JSON.parse throws SyntaxError.
JSONParse(s) ==
  LET r == ParseValue(s, 1)
  IN  IF r.ok /\ SkipWs(s, r.nxt) > Len(s)
      THEN [ok |-> TRUE, val |-> r.val]
      ELSE [ok |-> FALSE, val |-> Undef]

----------------------------------------------------------------------------
(* The zod schemas: z.string(), z.array(..), z.object({..}), .optional(),  *)
(* .refine(..).  A parse result is [ok, val, issues]; issues is the text   *)
(* of the ZodError (its issues, one after the other).                      *)

ReceivedType(x) ==
  CASE Tag(x) = "undef" -> "undefined"
    [] Tag(x) = "null" -> "null"
    [] Tag(x) = "str" -> "string"
    [] Tag(x) = "num" -> "number"
    [] Tag(x) = "arr" -> "array"
    [] OTHER -> "object"

\* The invalid_type issue zod raises at path for a value x that is not of
\* the expected type.
InvalidType(path, expected, x) ==
  <<"invalid_type", expected, ReceivedType(x)>> \o path
  \o (IF Tag(x) = "undef" THEN <<"Required">>
      ELSE <<"Expected", expected, "received", ReceivedType(x)>>)

Invalid(issues) == [ok |-> FALSE, val |-> Undef, issues |-> issues]
Valid(v) == [ok |-> TRUE, val |-> v, issues |-> <<>>]

\* z.string()
ZString(x, path) ==
  IF Tag(x) = "str" THEN Valid(x) ELSE Invalid(InvalidType(path, "string", x))

\* The result of an object schema from the results r of its keys ks: valid
\* when every key is, with the keys that have a value, in the order of ks;
\* else all the issues.
ObjectOf(ks, r) ==
  IF \A i \in 1..Len(ks) : r[i].ok
  THEN Valid(Obj(SelectSeq([i \in 1..Len(ks) |-> <<ks[i], r[i].val>>],
                           LAMBDA e : Tag(e[2]) # "undef")))
  ELSE Invalid(Concat([i \in 1..Len(ks) |-> r[i].issues]))

\* The result of an array schema from the results r of the elements.
ArrayOf(r) ==
  IF \A i \in 1..Len(r) : r[i].ok
  THEN Valid(Arr([i \in 1..Len(r) |-> r[i].val]))
  ELSE Invalid(Concat([i \in 1..Len(r) |-> r[i].issues]))

\* z.object({k1: z.string(), ..}) for the keys ks, all required; keys that
\* are not in the shape are stripped.
ZStringObject(ks, x, path) ==
  IF Tag(x) # "obj" THEN Invalid(InvalidType(path, "object", x))
  ELSE ObjectOf(ks, [i \in 1..Len(ks) |-> ZString(Get(x, ks[i]), path \o <<ks[i]>>)])

\* One field of a top-level schema, by the kind of its declaration:
\*   "string"  z.string()
\*   "strings" z.array(z.string())
\*   "inputs"  z.array(z.object({input_name, value}))
\*   "files"   z.array(z.object({file_name, file_content}))
ZField(kind, x, path) ==
  IF kind = "string" THEN ZString(x, path)
  ELSE IF Tag(x) # "arr" THEN Invalid(InvalidType(path, "array", x))
  ELSE ArrayOf([i \in 1..Len(Val(x)) |->
                  CASE kind = "strings" -> ZString(Val(x)[i], path \o Digits(i - 1))
                    [] kind = "inputs" ->
                         ZStringObject(<<"input_name", "value">>, Val(x)[i],
                                       path \o Digits(i - 1))
                    [] kind = "files" ->
                         ZStringObject(<<"file_name", "file_content">>, Val(x)[i],
                                       path \o Digits(i - 1))])

\* ZDeclared with every field taken as .optional().
ZDeclaredAllOptional(decl, x) ==
  IF Tag(x) = "undef" THEN Valid(Undef) ELSE ZField(decl[2], x, <<decl[1]>>)

\* A field declaration <<key, kind, optional>> applied to the value x of the
\* key: .optional() lets undefined through.
ZDeclared(decl, x) ==
  IF decl[3] /\ Tag(x) = "undef" THEN Valid(Undef)
  ELSE ZField(decl[2], x, <<decl[1]>>)

\* z.object(shape).parse(x): every field is checked and all issues are
\* collected; the output holds the shape's keys that have a value, in the
\* order of the shape, and no other key.
ZObject(shape, x) ==
  IF Tag(x) # "obj" THEN Invalid(InvalidType(<<>>, "object", x))
  ELSE ObjectOf([i \in 1..Len(shape) |-> shape[i][1]],
                [i \in 1..Len(shape) |-> ZDeclared(shape[i], Get(x, shape[i][1]))])

\* EitherUserOrProject with the refinement left out.
NoRefinement(data) == TRUE

\* The refinement as a test of presence: a key that is there satisfies it,
\* whatever its value.
EitherPresent(data) ==
  Tag(Get(data, "user_id")) # "undef" \/ Tag(Get(data, "project_id")) # "undef"

\* The predicate of .refine(): (data) => data.user_id || data.project_id
EitherUserOrProject(data) ==
  Truthy(Get(data, "user_id")) \/ Truthy(Get(data, "project_id"))

RefineMessage == <<"custom", "Either user_id or project_id is required">>

\* schema.parse(x) of a schema [shape, refine]: the refinement runs only on
\* an object that passed the shape.
Refined(refine, base) ==
  IF ~base.ok THEN base
  ELSE IF refine /\ ~EitherUserOrProject(base.val) THEN Invalid(RefineMessage)
  ELSE base

ZParse(schema, x) == Refined(schema.refine, ZObject(schema.shape, x))

Req(key) == <<key, "string", FALSE>>
Opt(key) == <<key, "string", TRUE>>

StartAutomationSchema ==
  [shape |-> <<Req("user_id"), Req("saved_item_id"), Opt("project_id"),
               <<"pipeline_inputs", "inputs", TRUE>>>>,
   refine |-> FALSE]

RetrieveRunDetailsSchema ==
  [shape |-> <<Req("run_id"), Opt("user_id"), Opt("project_id")>>, refine |-> TRUE]

ListSavedFlowsSchema ==
  [shape |-> <<Opt("user_id"), Opt("project_id")>>, refine |-> TRUE]

ListWorkbooksSchema ==
  [shape |-> <<Opt("user_id"), Opt("project_id")>>, refine |-> TRUE]

RetrieveInputSchemaSchema ==
  [shape |-> <<Req("saved_item_id"), Opt("user_id"), Opt("project_id")>>,
   refine |-> TRUE]

UploadFileSchema ==
  [shape |-> <<Req("file_name"), Req("file_content"), Opt("user_id"),
               Opt("project_id")>>,
   refine |-> TRUE]

UploadMultipleFilesSchema ==
  [shape |-> <<<<"files", "files", FALSE>>, Opt("user_id"), Opt("project_id")>>,
   refine |-> TRUE]

DownloadFileSchema ==
  [shape |-> <<Req("file_name"), Req("run_id"), Req("saved_item_id"), Opt("user_id"),
               Opt("project_id")>>,
   refine |-> FALSE]

DownloadMultipleFilesSchema ==
  [shape |-> <<<<"file_names", "strings", FALSE>>, Req("run_id"), Opt("user_id"),
               Opt("project_id"), Opt("saved_item_id")>>,
   refine |-> TRUE]

----------------------------------------------------------------------------
(* GumloopAPI *)

baseUrl == "https://api.gumloop.com/api/v1"

\* The constructor without its check of the key.
NewGumloopAPIUnchecked(e) ==
  [threw |-> FALSE, message |-> <<>>,
   apiKey |-> IF Tag(e) = "str" THEN Val(e) ELSE <<"undefined">>]

\* new GumloopAPI(), e the value of GUMLOOP_API_KEY in the environment: it
\* throws, or holds the key.
NewGumloopAPI(e) ==
  IF ~Truthy(e)
  THEN [threw |-> TRUE, message |-> <<"GUMLOOP_API_KEY environment variable is required">>,
        apiKey |-> <<>>]
  ELSE [threw |-> FALSE, message |-> <<>>, apiKey |-> Val(e)]

\* String(value), as URLSearchParams.append applies it.
RECURSIVE JsString(_)
JsString(v) ==
  CASE Tag(v) = "str" -> Val(v)
    [] Tag(v) = "num" -> Val(v)
    [] Tag(v) = "arr" -> Join([i \in 1..Len(Val(v)) |-> JsString(Val(v)[i])], <<",">>)
    [] Tag(v) = "undef" -> <<"undefined">>
    [] Tag(v) = "null" -> <<"null">>
    [] OTHER -> <<"[object Object]">>

\* FormEncode with the character written as it is.
FormEncodeRaw(c) == <<c>>

\* The application/x-www-form-urlencoded form of one character, as
\* URLSearchParams.toString() writes it.
FormEncode(c) ==
  CASE c = " " -> <<"+">>
    [] c = "&" -> <<"%", "2", "6">>
    [] c = "=" -> <<"%", "3", "D">>
    [] c = "+" -> <<"%", "2", "B">>
    [] c = "%" -> <<"%", "2", "5">>
    [] c = "?" -> <<"%", "3", "F">>
    [] OTHER -> <<c>>

FormEncodeAll(cs) == Concat([i \in 1..Len(cs) |-> FormEncode(cs[i])])

\* The query string makeRequest builds from data: one key=value pair for
\* every entry whose value is neither undefined nor null.
QueryString(data) ==
  LET es == SelectSeq(Val(data), LAMBDA e : Tag(e[2]) # "undef" /\ Tag(e[2]) # "null")
  IN  Join([i \in 1..Len(es) |-> <<es[i][1], "=">> \o FormEncodeAll(JsString(es[i][2]))],
           <<"&">>)

\* BuildRequest that sends the key of a GET request without "Bearer ".
BuildRequestBareKeyOnGet(key, endpoint, method, data) ==
  LET qs == IF method = "GET" /\ Truthy(data) THEN QueryString(data) ELSE <<>>
  IN  [method |-> method,
       url |-> <<baseUrl, endpoint>> \o (IF qs # <<>> THEN <<"?">> \o qs ELSE <<>>),
       headers |-> [Authorization |-> IF method = "GET" THEN key ELSE <<"Bearer ">> \o key,
                    ContentType |-> <<"application/json">>],
       body |-> IF method # "GET" /\ Truthy(data) THEN Stringify(data, 0, 0) ELSE <<>>]

\* The request makeRequest hands to fetch: [method, url, headers, body];
\* body is <<>> when options.body is not set.
BuildRequest(key, endpoint, method, data) ==
  LET qs == IF method = "GET" /\ Truthy(data) THEN QueryString(data) ELSE <<>>
  IN  [method |-> method,
       url |-> <<baseUrl, endpoint>> \o (IF qs # <<>> THEN <<"?">> \o qs ELSE <<>>),
       headers |-> [Authorization |-> <<"Bearer ">> \o key,
                    ContentType |-> <<"application/json">>],
       body |-> IF method # "GET" /\ Truthy(data) THEN Stringify(data, 0, 0) ELSE <<>>]

\* Fetches with the request sent a second time.
FetchesTwice(req) == <<req, req>>

\* The calls of fetch one makeRequest makes, in order.
Fetches(req) == <<req>>

\* ResponseOk that takes every status below 500 for a success.
ResponseOkBelow500(resp) == resp.status < 500

\* response.ok
ResponseOk(resp) == resp.status >= 200 /\ resp.status <= 299

\* contentType.includes("application/json"); a content type is a sequence
\* of pieces, <<>> when the response has no content-type header.
IsJsonContentType(ct) == ct # <<>> /\ \E i \in 1..Len(ct) : ct[i] = "application/json"

\* response.json(), r the parse of the body: the document, or a SyntaxError.
ResponseJson(r) ==
  IF r.ok
  THEN [threw |-> FALSE, message |-> <<>>, value |-> r.val, bodyRead |-> "json"]
  ELSE [threw |-> TRUE, message |-> <<"Unexpected token in JSON">>, value |-> Undef,
        bodyRead |-> "json"]

\* What makeRequest does with the settled fetch: [threw, message, value,
\* bodyRead]; bodyRead tells how the body was consumed.
Settle(resp) ==
  IF resp.rejected
  THEN [threw |-> TRUE, message |-> resp.reason, value |-> Undef, bodyRead |-> "none"]
  ELSE IF ~ResponseOk(resp)
  THEN [threw |-> TRUE,
        message |-> <<"Gumloop API request failed: ">> \o Digits(resp.status)
                    \o <<" - ">> \o resp.statusText,
        value |-> Undef, bodyRead |-> "none"]
  ELSE IF IsJsonContentType(resp.contentType)
  THEN ResponseJson(JSONParse(resp.body))
  ELSE [threw |-> FALSE, message |-> <<>>, value |-> Buf(resp.body),
        bodyRead |-> "arrayBuffer"]

\* Route with the endpoint of uploadFile copied to uploadMultipleFiles and
\* retrieveInputSchema sent by POST.
RouteSlipped(name) ==
  CASE name = "startAutomation" -> [endpoint |-> "/start_pipeline", method |-> "POST"]
    [] name = "retrieveRunDetails" -> [endpoint |-> "/get_pl_run", method |-> "GET"]
    [] name = "listSavedFlows" -> [endpoint |-> "/list_saved_items", method |-> "GET"]
    [] name = "listWorkbooks" -> [endpoint |-> "/list_workbooks", method |-> "GET"]
    [] name = "retrieveInputSchema" -> [endpoint |-> "/get_inputs", method |-> "POST"]
    [] name = "uploadFile" -> [endpoint |-> "/upload_file", method |-> "POST"]
    [] name = "uploadMultipleFiles" -> [endpoint |-> "/upload_file", method |-> "POST"]
    [] name = "downloadFile" -> [endpoint |-> "/download_file", method |-> "POST"]
    [] name = "downloadMultipleFiles" -> [endpoint |-> "/download_files", method |-> "POST"]

\* The endpoint and method of each method of GumloopAPI.
Route(name) ==
  CASE name = "startAutomation" -> [endpoint |-> "/start_pipeline", method |-> "POST"]
    [] name = "retrieveRunDetails" -> [endpoint |-> "/get_pl_run", method |-> "GET"]
    [] name = "listSavedFlows" -> [endpoint |-> "/list_saved_items", method |-> "GET"]
    [] name = "listWorkbooks" -> [endpoint |-> "/list_workbooks", method |-> "GET"]
    [] name = "retrieveInputSchema" -> [endpoint |-> "/get_inputs", method |-> "GET"]
    [] name = "uploadFile" -> [endpoint |-> "/upload_file", method |-> "POST"]
    [] name = "uploadMultipleFiles" -> [endpoint |-> "/upload_files", method |-> "POST"]
    [] name = "downloadFile" -> [endpoint |-> "/download_file", method |-> "POST"]
    [] name = "downloadMultipleFiles" -> [endpoint |-> "/download_files", method |-> "POST"]

----------------------------------------------------------------------------
(* The call-tool handler *)

\* The cases of the handler's switch.
ToolNames ==
  {"startAutomation", "retrieveRunDetails", "listSavedFlows", "listWorkbooks",
   "retrieveInputSchema", "uploadFile", "uploadMultipleFiles", "downloadFile",
   "downloadMultipleFiles"}

\* The schema each case parses the arguments with.
SchemaOf(name) ==
  CASE name = "startAutomation" -> StartAutomationSchema
    [] name = "retrieveRunDetails" -> RetrieveRunDetailsSchema
    [] name = "listSavedFlows" -> ListSavedFlowsSchema
    [] name = "listWorkbooks" -> ListWorkbooksSchema
    [] name = "retrieveInputSchema" -> RetrieveInputSchemaSchema
    [] name = "uploadFile" -> UploadFileSchema
    [] name = "uploadMultipleFiles" -> UploadMultipleFilesSchema
    [] name = "downloadFile" -> DownloadFileSchema
    [] name = "downloadMultipleFiles" -> DownloadMultipleFilesSchema

NoResult == [isError |-> FALSE, text |-> <<>>]

\* The result the catch block returns for an error with this message.
CaughtResult(message) == [isError |-> TRUE, text |-> <<"API error: ">> \o message]

\* UnknownToolResult without the error flag.
UnknownToolUnflagged(name) == [isError |-> FALSE, text |-> <<"Unknown tool: ", name>>]

\* The result of the default case.
UnknownToolResult(name) == [isError |-> TRUE, text |-> <<"Unknown tool: ", name>>]

\* SuccessResult with the value serialized in every case.
SuccessResultSerialized(name, value) ==
  [isError |-> FALSE, text |-> Stringify(value, 2, 0)]

\* The result a case returns once its api call has resolved with value.
SuccessResult(name, value) ==
  CASE name = "downloadFile" ->
         [isError |-> FALSE,
          text |-> <<"File downloaded successfully. Binary data is available but not displayed here.">>]
    [] name = "downloadMultipleFiles" ->
         [isError |-> FALSE,
          text |-> <<"Files downloaded successfully as a zip archive. Binary data is available but not displayed here.">>]
    [] OTHER -> [isError |-> FALSE, text |-> Stringify(value, 2, 0)]

\* Catch that handles no error: what is thrown leaves the handler.
CatchNothing(outcome, result) == [escaped |-> outcome.threw, result |-> result]

\* The try/catch of the handler around an outcome [threw, message, ..] of
\* its body: [escaped, result]; escaped says that the error left the handler.
Catch(outcome, result) ==
  IF outcome.threw
  THEN [escaped |-> FALSE, result |-> CaughtResult(outcome.message)]
  ELSE [escaped |-> FALSE, result |-> result]

NoResponse ==
  [rejected |-> FALSE, reason |-> <<>>, status |-> 0, statusText |-> <<>>,
   contentType |-> <<>>, body |-> <<>>]

\* The handler's step when the error of outcome has been through its catch.
Thrown(outcome, c) ==
  [valid |-> FALSE, validated |-> Undef, sent |-> <<>>, threw |-> TRUE,
   message |-> outcome.message, bodyRead |-> outcome.bodyRead, returned |-> ~c.escaped, escaped |-> c.escaped,
   result |-> c.result]

\* HandleParsed that does not wait for its fetch: it returns an error for
\* the call at once.
HandleParsedUnawaited(key, name, v) ==
  IF ~v.ok
  THEN Thrown([threw |-> TRUE, message |-> v.issues, bodyRead |-> "none"],
              Catch([threw |-> TRUE, message |-> v.issues], NoResult))
  ELSE [valid |-> TRUE, validated |-> v.val,
        sent |-> Fetches(BuildRequest(key, Route(name).endpoint, Route(name).method,
                                      v.val)),
        threw |-> FALSE, message |-> <<>>, bodyRead |-> "none", returned |-> TRUE,
        escaped |-> FALSE, result |-> CaughtResult(<<"Request timed out">>)]

\* A case of the switch once schema.parse has given v: the ZodError goes to
\* the catch, the parsed arguments go to the method of GumloopAPI, which
\* awaits its fetch.
HandleParsed(key, name, v) ==
  IF ~v.ok
  THEN Thrown([threw |-> TRUE, message |-> v.issues, bodyRead |-> "none"],
              Catch([threw |-> TRUE, message |-> v.issues], NoResult))
  ELSE [valid |-> TRUE, validated |-> v.val,
        sent |-> Fetches(BuildRequest(key, Route(name).endpoint, Route(name).method,
                                      v.val)),
        threw |-> FALSE, message |-> <<>>, bodyRead |-> "none", returned |-> FALSE,
        escaped |-> FALSE, result |-> NoResult]

\* What the handler does with a call-tool request up to its first await or
\* its return: valid (the arguments passed the schema), validated (the
\* parsed arguments), sent (the requests handed to fetch), returned (the
\* handler has returned result), escaped (an error left the handler).
HandleCall(key, name, args) ==
  IF name \notin ToolNames
  THEN [valid |-> FALSE, validated |-> Undef, sent |-> <<>>, threw |-> FALSE,
        message |-> <<>>, bodyRead |-> "none", returned |-> TRUE, escaped |-> FALSE,
        result |-> UnknownToolResult(name)]
  ELSE HandleParsed(key, name, ZParse(SchemaOf(name), args))

\* What the handler of a call to the tool name does once its fetch has
\* settled with resp, up to its return.
\* The handler's step from the outcome o of makeRequest to its return.
Returned(name, o) ==
  IF o.threw THEN Thrown(o, Catch(o, NoResult))
  ELSE [valid |-> TRUE, validated |-> Undef, sent |-> <<>>, threw |-> FALSE,
        message |-> <<>>, bodyRead |-> o.bodyRead, returned |-> TRUE, escaped |-> FALSE,
        result |-> SuccessResult(name, o.value)]

\* HandleSettled that puts before the text of the result the number of
\* calls of the tool whose fetch has not settled.
HandleSettledCounting(name, resp) ==
  [Returned(name, Settle(resp)) EXCEPT !.result.text = Digits(inflight[name]) \o @]

HandleSettled(name, resp) == Returned(name, Settle(resp))

----------------------------------------------------------------------------
(* The tool definitions and the list-tools handler *)

\* One entry of TOOLS: the name of the tool and, of its inputSchema, the
\* keys of properties and the list required, in their order.
Tool(name, properties, required) ==
  [name |-> name, properties |-> properties, required |-> required]

\* const TOOLS: its entries <<key, definition>> in insertion order.
TOOLS ==
  << <<"startAutomation",
       Tool("startAutomation",
            <<"user_id", "saved_item_id", "project_id", "pipeline_inputs">>,
            <<"user_id", "saved_item_id">>)>>,
     <<"retrieveRunDetails",
       Tool("retrieveRunDetails", <<"run_id", "user_id", "project_id">>, <<"run_id">>)>>,
     <<"listSavedFlows",
       Tool("listSavedFlows", <<"user_id", "project_id">>, <<>>)>>,
     <<"listWorkbooks",
       Tool("listWorkbooks", <<"user_id", "project_id">>, <<>>)>>,
     <<"retrieveInputSchema",
       Tool("retrieveInputSchema", <<"saved_item_id", "user_id", "project_id">>,
            <<"saved_item_id">>)>>,
     <<"uploadFile",
       Tool("uploadFile", <<"file_name", "file_content", "user_id", "project_id">>,
            <<"file_name", "file_content">>)>>,
     <<"uploadMultipleFiles",
       Tool("uploadMultipleFiles", <<"files", "user_id", "project_id">>, <<"files">>)>>,
     <<"downloadFile",
       Tool("downloadFile",
            <<"file_name", "run_id", "saved_item_id", "user_id", "project_id">>,
            <<"file_name", "run_id", "saved_item_id">>)>>,
     <<"downloadMultipleFiles",
       Tool("downloadMultipleFiles",
            <<"file_names", "run_id", "user_id", "project_id", "saved_item_id">>,
            <<"file_names", "run_id">>)>> >>

\* ObjectValues that leaves out the last entry.
ObjectValuesButLast(o) == [i \in 1..(Len(o) - 1) |-> o[i][2]]

\* Object.values(o): the values of the entries of o, in insertion order.
ObjectValues(o) == [i \in 1..Len(o) |-> o[i][2]]

\* The list-tools handler: its response for the registry as it stands.
ListToolsHandler(tools) == [tools |-> ObjectValues(tools)]

----------------------------------------------------------------------------
(* The inputs: environments, requests and responses *)

\* The values GUMLOOP_API_KEY may have in the environment.
Environments == {Undef, Str(<<>>), Str(<<"k", "1">>), Str(<<"k", "2">>)}

\* The values a request may give to a key of its arguments.
Candidates(key) ==
  CASE key = "user_id" -> {Undef, Str(<<>>), Str(<<"u", "1">>), Num(<<"4", "2">>)}
    [] key = "project_id" -> {Undef, Null, Str(<<>>), Str(<<"p", "&", "1">>)}
    [] key = "saved_item_id" -> {Undef, Str(<<"s", "1">>)}
    [] key = "run_id" -> {Undef, Str(<<"r", " ", "1">>), Num(<<"7">>)}
    [] key = "file_name" -> {Undef, Str(<<"f">>)}
    [] key = "file_content" -> {Undef, Str(<<"Z", "g", "=", "=">>)}
    [] key = "pipeline_inputs" ->
         {Undef,
          Arr(<<Obj(<<<<"input_name", Str(<<"q">>)>>, <<"value", Str(<<"a">>)>>>>)>>),
          Arr(<<Obj(<<<<"input_name", Str(<<"q">>)>>>>)>>)}
    [] key = "files" ->
         {Undef,
          Arr(<<Obj(<<<<"file_name", Str(<<"f">>)>>, <<"file_content", Str(<<"Z">>)>>>>)>>),
          Arr(<<Obj(<<<<"file_name", Str(<<"f">>)>>>>)>>)}
    [] key = "file_names" ->
         {Undef, Arr(<<Str(<<"f">>)>>), Arr(<<Str(<<"f">>), Num(<<"7">>)>>)}
    [] key = "extra" -> {Undef, Str(<<"x">>)}

RECURSIVE Entries(_)
\* The entry lists over the keys ks, each key absent or with one of its
\* candidate values.
Entries(ks) ==
  IF ks = <<>> THEN {<<>>}
  ELSE {(IF Tag(v) = "undef" THEN <<>> ELSE <<<<Head(ks), v>>>>) \o rest :
          v \in Candidates(Head(ks)), rest \in Entries(Tail(ks))}

\* The keys a request for the tool may carry: the keys of its schema, and
\* for the tools sent by GET a key that is in no schema.
RequestKeys(name) ==
  LET shape == SchemaOf(name).shape
  IN  (IF Route(name).method = "GET" THEN <<"extra">> ELSE <<>>)
      \o [i \in 1..Len(shape) |-> shape[Len(shape) + 1 - i][1]]

\* Names that are no case of the switch.
UnknownNames == {"deleteFlow", "startautomation"}

\* The arguments a call-tool request may carry: none, or an object.
Arguments(name) ==
  IF name \in ToolNames
  THEN {Undef} \cup {Obj(es) : es \in Entries(RequestKeys(name))}
  ELSE {Undef, Obj(<<>>), Obj(<<<<"user_id", Str(<<"u", "1">>)>>>>)}

\* The documents the remote may answer with.
Documents ==
  {Obj(<<<<"run_id", Str(<<"r", "1">>)>>,
         <<"log", Arr(<<Str(<<"a", " ", "b">>), Null>>)>>>>),
   Arr(<<Num(<<"1", "0">>), Obj(<<>>)>>)}

\* The bodies of a response: documents as JSON text, compact or indented, a
\* text that is no JSON, and the bytes of a file.
Bodies ==
  {Stringify(d, 0, 0) : d \in Documents} \cup {Stringify(d, 1, 0) : d \in Documents}
  \cup {<<"{", "\"", "a">>, <<"P", "K", "0">>}

ContentTypes ==
  {<<>>, <<"application/json">>, <<"application/json", "; charset=utf-8">>,
   <<"application/zip">>}

Statuses ==
  {<<200, <<"OK">>>>, <<404, <<"Not Found">>>>, <<500, <<"Internal Server Error">>>>}

\* The ways a fetch may settle: rejected (a network error), or resolved
\* with a response.
Responses ==
  {[rejected |-> TRUE, reason |-> <<"fetch failed">>, status |-> 0, statusText |-> <<>>,
    contentType |-> <<>>, body |-> <<>>]}
  \cup {[rejected |-> FALSE, reason |-> <<>>, status |-> st[1], statusText |-> st[2],
         contentType |-> ct, body |-> b] :
          st \in Statuses, ct \in ContentTypes, b \in Bodies}

----------------------------------------------------------------------------
(* The server *)

\* last: the step the handler has just taken, until the event loop takes
\* up its next event.
NoLast ==
  [kind |-> "none", name |-> "", args |-> Undef, resp |-> NoResponse, valid |-> FALSE,
   validated |-> Undef, sent |-> <<>>, bodyRead |-> "none", threw |-> FALSE,
   message |-> <<>>, returned |-> FALSE, escaped |-> FALSE, result |-> NoResult,
   tools |-> <<>>]

\* The record of a step h of the handler: of the call of the tool name with
\* args (kind "call"), or of the handler of a call of the tool name whose
\* fetch has settled with resp (kind "settled").
Step(kind, name, args, resp, h) ==
  [kind |-> kind, name |-> name, args |-> args, resp |-> resp, valid |-> h.valid,
   validated |-> h.validated, sent |-> h.sent, bodyRead |-> h.bodyRead,
   threw |-> h.threw, message |-> h.message, returned |-> h.returned,
   escaped |-> h.escaped, result |-> h.result, tools |-> <<>>]

RECURSIVE Total(_, _)
\* The sum of f over the set S.
Total(f, S) ==
  IF S = {} THEN 0 ELSE f[CHOOSE n \in S : TRUE] + Total(f, S \ {CHOOSE n \in S : TRUE})

\* The number of calls whose fetch has not settled.
InFlight == Total(inflight, ToolNames)

Init ==
  /\ env \in Environments
  /\ phase = "starting"
  /\ exitCode = <<>>
  /\ apiKey = <<>>
  /\ inflight = [n \in ToolNames |-> 0]
  /\ registry = TOOLS
  /\ last = NoLast

\* main(): new GumloopAPI() throws when the key is not set, and main's
\* catch exits with 1; server.connect either succeeds or fails, and then
\* the process exits with 1.
Start ==
  /\ phase = "starting"
  /\ IF NewGumloopAPI(env).threw
     THEN /\ phase' = "exited"
          /\ exitCode' = <<1>>
          /\ apiKey' = apiKey
     ELSE \E connected \in BOOLEAN :
            /\ apiKey' = NewGumloopAPI(env).apiKey
            /\ phase' = IF connected THEN "serving" ELSE "exited"
            /\ exitCode' = IF connected THEN exitCode ELSE <<1>>
  /\ UNCHANGED <<env, inflight, registry, last>>

\* The server is connected and no handler is running: the event loop can
\* take up a request or resume a handler.
Idle == phase = "serving" /\ last.kind = "none"

\* A list-tools request arrives: the handler returns its response.
ListTools ==
  /\ Idle
  /\ last' = [NoLast EXCEPT !.kind = "list", !.returned = TRUE,
                            !.tools = ListToolsHandler(registry).tools]
  /\ UNCHANGED <<env, phase, exitCode, apiKey, inflight, registry>>

\* The handler of a call-tool request for name with args runs to its return
\* or to the await of its fetch.
CallToolWith(name, args) ==
  /\ last' = Step("call", name, args, NoResponse, HandleCall(apiKey, name, args))
  /\ last'.valid => InFlight < MaxInFlight
  /\ inflight' = IF last'.valid THEN [inflight EXCEPT ![name] = @ + 1] ELSE inflight
  /\ UNCHANGED <<env, phase, exitCode, apiKey, registry>>

\* A call-tool request arrives.
CallTool ==
  /\ Idle
  /\ \E name \in ToolNames \cup UnknownNames :
       \E args \in Arguments(name) : CallToolWith(name, args)

\* The handler of a call of the tool name, its fetch settled with resp,
\* runs to its return.
FetchSettlesWith(name, resp) ==
  /\ inflight' = [inflight EXCEPT ![name] = @ - 1]
  /\ last' = Step("settled", name, Undef, resp, HandleSettled(name, resp))
  /\ UNCHANGED <<env, phase, exitCode, apiKey, registry>>

\* The fetch of a call of the tool name settles.
FetchSettlesFor(name) ==
  /\ Idle
  /\ inflight[name] > 0
  /\ \E resp \in Responses : FetchSettlesWith(name, resp)

\* The fetch of a call in flight settles.
FetchSettles == \E name \in ToolNames : FetchSettlesFor(name)

\* The event loop takes up its next event.
NextEvent ==
  /\ last.kind # "none"
  /\ last' = NoLast
  /\ UNCHANGED <<env, phase, exitCode, apiKey, inflight, registry>>

Next == Start \/ ListTools \/ CallTool \/ FetchSettles \/ NextEvent

Spec == Init /\ [][Next]_vars

\* The inputs of the server under its scheduling: the environment without
\* the key or with one key; for a call no arguments, or an object that holds
\* for every key a string that is not empty or an array; for a fetch a
\* network error, or a response that holds a zip archive.
FairEnvironments == {Undef, Str(<<"k", "1">>)}

FairArguments(name) ==
  {args \in Arguments(name) :
     Tag(args) = "obj" =>
       /\ name \in ToolNames
       /\ Len(Val(args)) = Len(RequestKeys(name))
       /\ \A i \in 1..Len(Val(args)) :
            Tag(Val(args)[i][2]) \in {"str", "arr"} /\ Truthy(Val(args)[i][2])}

FairResponses ==
  {resp \in Responses :
     \/ resp.rejected
     \/ resp.contentType = <<"application/zip">> /\ resp.body = <<"P", "K", "0">>}

FairInit == Init /\ env \in FairEnvironments

FairCallTool ==
  /\ Idle
  /\ \E name \in ToolNames \cup UnknownNames :
       \E args \in FairArguments(name) : CallToolWith(name, args)

FairSettlesFor(name) ==
  /\ Idle
  /\ inflight[name] > 0
  /\ \E resp \in FairResponses : FetchSettlesWith(name, resp)

FairFetchSettles == \E name \in ToolNames : FairSettlesFor(name)

FairNext == Start \/ ListTools \/ FairCallTool \/ FairFetchSettles \/ NextEvent

\* The server with its scheduling: main runs to its end, the event loop
\* takes up its next event, and the fetch of every call in flight settles.
\* (When a fetch settles, with a response or with a network error, the event
\* loop resumes the handler that awaits it. It cannot resume it while
\* another handler runs, so the step is enabled again and again, not all
\* the time, until it is taken.)
FairSpec ==
  /\ FairInit /\ [][FairNext]_vars
  /\ WF_vars(Start)
  /\ WF_vars(NextEvent)
  /\ \A name \in ToolNames : SF_vars(FairSettlesFor(name))

----------------------------------------------------------------------------
(* The tables of the specification (sections 4.1 and 4.2), against which   *)
(* the properties below are stated.                                        *)

NineTools ==
  {"startAutomation", "retrieveRunDetails", "listSavedFlows", "listWorkbooks",
   "retrieveInputSchema", "uploadFile", "uploadMultipleFiles", "downloadFile",
   "downloadMultipleFiles"}

RequiredFields(name) ==
  CASE name = "startAutomation" -> {"user_id", "saved_item_id"}
    [] name = "retrieveRunDetails" -> {"run_id"}
    [] name = "listSavedFlows" -> {}
    [] name = "listWorkbooks" -> {}
    [] name = "retrieveInputSchema" -> {"saved_item_id"}
    [] name = "uploadFile" -> {"file_name", "file_content"}
    [] name = "uploadMultipleFiles" -> {"files"}
    [] name = "downloadFile" -> {"file_name", "run_id", "saved_item_id"}
    [] name = "downloadMultipleFiles" -> {"file_names", "run_id"}

OptionalFields(name) ==
  CASE name = "startAutomation" -> {"project_id", "pipeline_inputs"}
    [] name = "downloadMultipleFiles" -> {"user_id", "project_id", "saved_item_id"}
    [] OTHER -> {"user_id", "project_id"}

EitherOrTools ==
  {"retrieveRunDetails", "listSavedFlows", "listWorkbooks", "retrieveInputSchema",
   "uploadFile", "uploadMultipleFiles", "downloadMultipleFiles"}

GetTools == {"retrieveRunDetails", "listSavedFlows", "listWorkbooks", "retrieveInputSchema"}

DownloadTools == {"downloadFile", "downloadMultipleFiles"}

TableMethod(name) == IF name \in GetTools THEN "GET" ELSE "POST"

TablePath(name) ==
  CASE name = "startAutomation" -> "/start_pipeline"
    [] name = "retrieveRunDetails" -> "/get_pl_run"
    [] name = "listSavedFlows" -> "/list_saved_items"
    [] name = "listWorkbooks" -> "/list_workbooks"
    [] name = "retrieveInputSchema" -> "/get_inputs"
    [] name = "uploadFile" -> "/upload_file"
    [] name = "uploadMultipleFiles" -> "/upload_files"
    [] name = "downloadFile" -> "/download_file"
    [] name = "downloadMultipleFiles" -> "/download_files"

\* The arguments args of a request contain the key.
Has(args, key) == Tag(args) = "obj" /\ Tag(Get(args, key)) # "undef"

IsString(v) == Tag(v) = "str"
IsNonEmptyString(v) == Tag(v) = "str" /\ Len(Val(v)) > 0
IsArrayOfStrings(v) == Tag(v) = "arr" /\ \A i \in 1..Len(Val(v)) : IsString(Val(v)[i])
IsArrayOfObjects(v, ks) ==
  /\ Tag(v) = "arr"
  /\ \A i \in 1..Len(Val(v)) :
       Tag(Val(v)[i]) = "obj" /\ \A k \in ks : IsString(Get(Val(v)[i], k))

\* The value v is of the type the tool definitions declare for the key.
OfDeclaredType(key, v) ==
  CASE key = "pipeline_inputs" -> IsArrayOfObjects(v, {"input_name", "value"})
    [] key = "files" -> IsArrayOfObjects(v, {"file_name", "file_content"})
    [] key = "file_names" -> IsArrayOfStrings(v)
    [] OTHER -> IsString(v)

\* The path and the query string of a request: its url is the base
\* address, the path and, after "?", the query string.
PathOf(req) == req.url[2]
QueryOf(req) == SubSeq(req.url, 4, Len(req.url))

\* The text holds the pieces sub, one after the other.
Contains(text, sub) ==
  \E i \in 0..(Len(text) - Len(sub)) : SubSeq(text, i + 1, i + Len(sub)) = sub

\* The step just taken is the handler's first, on a call of a registered
\* tool / its last, after the fetch of the call has settled.
Called == last.kind = "call" /\ last.name \in NineTools
Settled == last.kind = "settled"

\* The step just taken issued exactly one request, with the method and the
\* path of the table, and raised no validation error.
RoutedByTable ==
  /\ last.valid /\ ~last.threw /\ ~last.result.isError
  /\ Len(last.sent) = 1
  /\ last.sent[1].method = TableMethod(last.name)
  /\ PathOf(last.sent[1]) = TablePath(last.name)
  /\ last.sent[1].url[1] = "https://api.gumloop.com/api/v1"

\* The step just taken ended the call in an error-flagged result and issued
\* no request.
RejectedUnsent ==
  /\ last.returned /\ last.result.isError
  /\ last.sent = <<>>
  /\ ~last.valid

----------------------------------------------------------------------------
(* C1 *)

\* C1 as claimed: a call of one of the nine tools whose arguments contain
\* every required field and, where the either/or constraint applies, at
\* least one of user_id / project_id, passes validation and issues a request
\* with the method and the path of the table.
C1_AsClaimed ==
  ( /\ Called
    /\ \A k \in RequiredFields(last.name) : Has(last.args, k)
    /\ last.name \in EitherOrTools =>
         Has(last.args, "user_id") \/ Has(last.args, "project_id") )
  => RoutedByTable

\* The arguments are an object whose fields are of their declared types.
WellTyped(name, args) ==
  /\ Tag(args) = "obj"
  /\ \A k \in RequiredFields(name) \cup OptionalFields(name) :
       Has(args, k) => OfDeclaredType(k, Get(args, k))

\* C1 (amended): a call of one of the nine tools whose arguments contain
\* every required field, hold for every field of the tool that is there a
\* value of its declared type and, where the either/or constraint applies,
\* hold a non-empty string for at least one of user_id / project_id, passes
\* validation and issues a request with the method and the path of the
\* table.
C1_Routing ==
  ( /\ Called
    /\ WellTyped(last.name, last.args)
    /\ \A k \in RequiredFields(last.name) : Has(last.args, k)
    /\ last.name \in EitherOrTools =>
         \/ IsNonEmptyString(Get(last.args, "user_id"))
         \/ IsNonEmptyString(Get(last.args, "project_id")) )
  => RoutedByTable

\* A call of downloadMultipleFiles, sent by POST, with all its fields.
C1_Witness ==
  /\ Called /\ last.name = "downloadMultipleFiles"
  /\ WellTyped(last.name, last.args)
  /\ \A k \in RequiredFields(last.name) \cup OptionalFields(last.name) : Has(last.args, k)
  /\ IsNonEmptyString(Get(last.args, "user_id"))
  /\ RoutedByTable

----------------------------------------------------------------------------
(* C2 *)

\* C2: a call of a tool with the either/or constraint that has neither
\* user_id nor project_id ends in an error-flagged result and issues no
\* request, whatever its other arguments.
C2_NeitherIdRejected ==
  ( /\ Called /\ last.name \in EitherOrTools
    /\ ~Has(last.args, "user_id") /\ ~Has(last.args, "project_id") )
  => RejectedUnsent

\* A call of uploadFile with its two required fields and neither id.
C2_Witness ==
  /\ Called /\ last.name = "uploadFile"
  /\ Has(last.args, "file_name") /\ Has(last.args, "file_content")
  /\ ~Has(last.args, "user_id") /\ ~Has(last.args, "project_id")
  /\ RejectedUnsent

----------------------------------------------------------------------------
(* C3 *)

\* C3: a call of one of the nine tools that omits a required field ends in
\* an error-flagged result, and no request is issued for it.
C3_MissingRequiredRejected ==
  ( /\ Called
    /\ \E k \in RequiredFields(last.name) : ~Has(last.args, k) )
  => RejectedUnsent

\* A call of downloadFile that omits run_id alone.
C3_Witness ==
  /\ Called /\ last.name = "downloadFile"
  /\ Has(last.args, "file_name") /\ Has(last.args, "saved_item_id")
  /\ Has(last.args, "user_id")
  /\ Tag(last.args) = "obj" /\ ~Has(last.args, "run_id")
  /\ RejectedUnsent

----------------------------------------------------------------------------
(* C4 *)

\* C4: an invocation issues exactly one request when it names a registered
\* tool and its arguments pass validation, and none otherwise: the one
\* request goes out in the handler's first step, and the step that follows
\* the response (a success, a failing status, a network error) issues none.
C4_OneRequestPerCall ==
  /\ last.kind = "call" =>
       Len(last.sent) = IF last.name \in NineTools /\ last.valid THEN 1 ELSE 0
  /\ last.kind = "call" => (last.valid <=> ~last.returned)
  /\ Settled => last.sent = <<>> /\ last.returned

\* The handler returns after a failing status without a second request.
C4_Witness ==
  /\ Settled /\ ~last.resp.rejected /\ last.resp.status = 500
  /\ last.sent = <<>> /\ last.returned

----------------------------------------------------------------------------
(* C5 *)

\* The three decimal digits of a status code.
StatusDigits(n) == <<Digit(n \div 100), Digit((n \div 10) % 10), Digit(n % 10)>>

\* C5: when the response has a failing status, the call's result is
\* error-flagged, its message holds the status code and the status text, and
\* the body of the response is not read, whatever its content type.
C5_FailingStatusIsError ==
  ( /\ Settled /\ ~last.resp.rejected
    /\ ~(last.resp.status >= 200 /\ last.resp.status <= 299) )
  => /\ last.returned /\ last.result.isError
     /\ Contains(last.result.text, StatusDigits(last.resp.status))
     /\ Contains(last.result.text, last.resp.statusText)
     /\ last.bodyRead = "none"

\* A 404 with a JSON content type and a well-formed JSON body.
C5_Witness ==
  /\ Settled /\ last.resp.status = 404
  /\ last.resp.contentType = <<"application/json">>
  /\ JSONParse(last.resp.body).ok
  /\ last.result.isError

----------------------------------------------------------------------------
(* C6 *)

\* The response of the step just taken has a success status, a JSON content
\* type and a body that is a JSON text.
JsonAnswered ==
  /\ Settled /\ ~last.resp.rejected
  /\ last.resp.status >= 200 /\ last.resp.status <= 299
  /\ \E i \in 1..Len(last.resp.contentType) : last.resp.contentType[i] = "application/json"
  /\ JSONParse(last.resp.body).ok

\* The result of the step just taken is a non-error result whose text is a
\* JSON text of the document of the response.
DocumentReturned ==
  /\ last.returned /\ ~last.result.isError
  /\ JSONParse(last.result.text).ok
  /\ JSONParse(last.result.text).val = JSONParse(last.resp.body).val

\* C6 as claimed: for every tool, a response with a success status and a
\* JSON content type gives a non-error result whose text decodes to the
\* document the remote sent.
C6_AsClaimed == JsonAnswered => DocumentReturned

\* What holds of the code: the same, for the seven tools that are not
\* download tools.
C6_ExceptDownloads == JsonAnswered /\ last.name \notin DownloadTools => DocumentReturned

----------------------------------------------------------------------------
(* C7 *)

DownloadMessage(name) ==
  IF name = "downloadFile"
  THEN <<"File downloaded successfully. Binary data is available but not displayed here.">>
  ELSE <<"Files downloaded successfully as a zip archive. Binary data is available but not displayed here.">>

----------------------------------------------------------------------------
(* C8 *)

RECURSIVE SplitOn(_, _, _)
\* The segments of the text s between the pieces sep; acc is the segment
\* being read.
SplitOn(s, sep, acc) ==
  IF s = <<>> THEN <<acc>>
  ELSE IF Head(s) = sep THEN <<acc>> \o SplitOn(Tail(s), sep, <<>>)
  ELSE SplitOn(Tail(s), sep, Append(acc, Head(s)))

Unescaped(a, b) ==
  CASE <<a, b>> = <<"2", "6">> -> "&"
    [] <<a, b>> = <<"3", "D">> -> "="
    [] <<a, b>> = <<"2", "B">> -> "+"
    [] <<a, b>> = <<"2", "5">> -> "%"
    [] <<a, b>> = <<"3", "F">> -> "?"
    [] OTHER -> "malformed"

RECURSIVE FormDecode(_)
\* The characters a form-urlencoded text stands for.
FormDecode(cs) ==
  IF cs = <<>> THEN <<>>
  ELSE IF Head(cs) = "+" THEN <<" ">> \o FormDecode(Tail(cs))
  ELSE IF Head(cs) = "%"
    THEN IF Len(cs) >= 3
         THEN <<Unescaped(cs[2], cs[3])>> \o FormDecode(SubSeq(cs, 4, Len(cs)))
         ELSE <<"malformed">>
  ELSE <<Head(cs)>> \o FormDecode(Tail(cs))

\* The pair a receiver reads from one segment key=value of a query string.
PairOf(seg) ==
  IF Len(seg) >= 2 /\ seg[2] = "="
  THEN <<seg[1], FormDecode(SubSeq(seg, 3, Len(seg)))>>
  ELSE <<"malformed", seg>>

PairsOf(segs) == [i \in 1..Len(segs) |-> PairOf(segs[i])]

\* The key=value pairs a receiver reads from the query string q, in order.
QueryPairs(q) == IF q = <<>> THEN <<>> ELSE PairsOf(SplitOn(q, "&", <<>>))

\* The fields of the tool that the arguments hold, each with its string.
PresentFields(name, args) ==
  {<<k, Val(Get(args, k))>> :
     k \in {f \in RequiredFields(name) \cup OptionalFields(name) : Has(args, f)}}

\* C8: the query string of the request of a call of a GET tool holds one
\* pair for every field of the tool that the arguments hold, with its
\* value, and nothing else: no pair for a field that is absent, none for a
\* key the tool does not have; listSavedFlows with user_id = "u1" alone
\* gives the query user_id=u1.
C8_QueryIsPresentFields ==
  ( Called /\ last.name \in GetTools /\ last.valid )
  => /\ Len(last.sent) = 1
     /\ last.sent[1].body = <<>>
     /\ LET pairs == QueryPairs(QueryOf(last.sent[1]))
        IN  /\ {pairs[i] : i \in 1..Len(pairs)} = PresentFields(last.name, last.args)
            /\ Len(pairs) = Cardinality(PresentFields(last.name, last.args))
     /\ QueryOf(last.sent[1]) # <<>> => last.sent[1].url[3] = "?"
     /\ ( last.name = "listSavedFlows"
          /\ last.args = Obj(<<<<"user_id", Str(<<"u", "1">>)>>>>) )
        => QueryOf(last.sent[1]) = <<"user_id", "=", "u", "1">>

\* retrieveRunDetails with a run_id that holds a space, an empty user_id, a
\* project_id that holds "&" and a key the tool does not have.
C8_Witness ==
  /\ Called /\ last.name = "retrieveRunDetails" /\ last.valid
  /\ Has(last.args, "extra")
  /\ Get(last.args, "user_id") = Str(<<>>)
  /\ Get(last.args, "project_id") = Str(<<"p", "&", "1">>)
  /\ QueryPairs(QueryOf(last.sent[1]))
       = <<<<"run_id", <<"r", " ", "1">>>>, <<"user_id", <<>>>>,
           <<"project_id", <<"p", "&", "1">>>>>>

----------------------------------------------------------------------------
(* C9 *)

\* C9: a call whose name is none of the nine tools returns an error-flagged
\* result whose text holds the name, issues no request and throws nothing
\* out of the handler, with or without arguments.
C9_UnknownToolRejected ==
  ( last.kind = "call" /\ last.name \notin NineTools )
  => /\ last.returned /\ ~last.escaped /\ ~last.threw
     /\ last.result.isError
     /\ Contains(last.result.text, <<last.name>>)
     /\ last.sent = <<>>

\* A call of "startautomation" without arguments.
C9_Witness ==
  /\ last.kind = "call" /\ last.name = "startautomation" /\ last.args = Undef
  /\ last.result.isError

----------------------------------------------------------------------------
(* C10 *)

\* C10: whatever calls came before, the server is serving after every step
\* of the handler; an error thrown in the step (by validation, by the
\* network, by a failing status, by the decoding of the body) has become an
\* error-flagged result that carries its message, and has not left the
\* handler.
C10_ErrorsBecomeResults ==
  /\ last.kind # "none" => phase = "serving" /\ ~last.escaped
  /\ last.threw =>
       /\ last.returned /\ last.result.isError
       /\ last.message # <<>>
       /\ Contains(last.result.text, last.message)

\* A network error on a call while another call is in flight.
C10_Witness ==
  /\ Settled /\ last.resp.rejected /\ last.threw
  /\ last.result.isError
  /\ \E n \in ToolNames : inflight[n] > 0

----------------------------------------------------------------------------
(* C11 *)

\* C11: whatever requests were handled before and whatever calls are in
\* flight, the registry is the one the server started with, and the
\* response to a list-tools request holds its nine definitions: one for
\* each of the nine names, the same in every response.
C11_ListToolsStable ==
  /\ registry = TOOLS
  /\ last.kind = "list" =>
       /\ last.returned
       /\ Len(last.tools) = 9
       /\ {last.tools[i].name : i \in 1..Len(last.tools)} = NineTools
       /\ last.tools = [i \in 1..Len(TOOLS) |-> TOOLS[i][2]]

\* A list-tools request answered while a call-tool request is in flight.
C11_Witness ==
  /\ last.kind = "list" /\ Len(last.tools) = 9
  /\ InFlight >= 1

----------------------------------------------------------------------------
(* C12 *)

\* C12: when GUMLOOP_API_KEY is not in the environment, the server never
\* serves: no list-tools or call-tool request is handled, no request is
\* handed to fetch and none is outstanding, and the one step the process
\* takes from its start ends it with exit status 1.
C12_NoCredentialNoService ==
  /\ [](Tag(env) = "undef" =>
          /\ phase \in {"starting", "exited"}
          /\ phase = "exited" <=> exitCode = <<1>>
          /\ last.kind = "none" /\ last.sent = <<>>
          /\ InFlight = 0)
  /\ [][Tag(env) = "undef" => phase' = "exited" /\ exitCode' = <<1>>]_vars

\* The process has exited with status 1 for want of the key.
C12_Witness == Tag(env) = "undef" /\ phase = "exited" /\ exitCode = <<1>>

----------------------------------------------------------------------------
(* C13 *)

\* C13: the key the server holds while it serves is the value of
\* GUMLOOP_API_KEY at its start, no step after the start changes it, and
\* every request handed to fetch, by GET or by POST, whatever calls came
\* before or are in flight, has the Authorization header "Bearer " followed
\* by that value.
C13_BearerIsStartupCredential ==
  /\ [](phase = "serving" => Tag(env) = "str" /\ apiKey = Val(env))
  /\ [](\A i \in 1..Len(last.sent) :
          last.sent[i].headers.Authorization = <<"Bearer ">> \o Val(env))
  /\ [][phase # "starting" => apiKey' = apiKey]_vars

\* A GET request handed to fetch while another call is in flight.
C13_Witness ==
  /\ Called /\ Len(last.sent) = 1 /\ last.sent[1].method = "GET"
  /\ last.sent[1].headers.Authorization = <<"Bearer ", "k", "2">>
  /\ InFlight = 2

----------------------------------------------------------------------------
(* C14 *)

\* What the handler, run on its own under any key, returns for the call of
\* the tool name with args before its fetch, and what it returns for it
\* once the fetch has settled with resp.
ResultBeforeFetch(name, args) == HandleCall(<<"k", "0">>, name, args).result
ResultAfterFetch(name, resp) == Returned(name, Settle(resp)).result

----------------------------------------------------------------------------
(* C15 *)

\* The step just taken has given the call its result.
ResultGiven == last.kind \in {"call", "settled"} /\ last.returned /\ ~last.escaped

\* C15: a call whose request has been handed to fetch has no result while
\* the fetch has not settled; a call stops being in flight only by the step
\* in which its fetch settles, with a response or with a network error, and
\* that step gives it its one result; and, the fetch of every call settling
\* in the end, every call in flight is given its result in the end.
C15_OneResultWhenSettled ==
  /\ [](Called /\ last.valid =>
          /\ ~last.returned /\ last.result = NoResult
          /\ inflight[last.name] >= 1)
  /\ [](last.kind = "call" /\ ~last.valid => ResultGiven)
  /\ [][\A n \in ToolNames :
          /\ inflight'[n] > inflight[n] =>
               /\ inflight'[n] = inflight[n] + 1
               /\ last'.kind = "call" /\ last'.name = n /\ last'.valid
          /\ inflight'[n] < inflight[n] =>
               /\ inflight'[n] = inflight[n] - 1
               /\ last'.kind = "settled" /\ last'.name = n /\ ResultGiven'
          /\ inflight'[n] = inflight[n] =>
               ~(last'.kind = "settled" /\ last'.name = n)]_vars
  /\ \A n \in ToolNames :
       inflight[n] > 0 ~> (Settled /\ last.name = n /\ ResultGiven)

\* A call of uploadFile is given its result while a call of listWorkbooks,
\* taken up after it or before it, is in flight.
C15_Witness ==
  /\ Settled /\ ResultGiven /\ last.name = "uploadFile"
  /\ inflight["uploadFile"] = 0 /\ inflight["listWorkbooks"] = 1

----------------------------------------------------------------------------
(* C16 *)

\* The arguments hold for the key nothing, or the empty string.
AbsentOrEmpty(args, key) == ~Has(args, key) \/ Get(args, key) = Str(<<>>)

\* The request of the step just taken carries the key with the string the
\* arguments hold for it: as a pair of its query string, or as a member of
\* the JSON object that is its body.
Forwards(key) ==
  LET req == last.sent[1]
      pairs == QueryPairs(QueryOf(req))
  IN  IF req.method = "GET"
      THEN \E i \in 1..Len(pairs) : pairs[i] = <<key, Val(Get(last.args, key))>>
      ELSE /\ JSONParse(req.body).ok
           /\ Get(JSONParse(req.body).val, key) = Get(last.args, key)

\* C16: for a call of a tool with the either/or constraint, (a) when the
\* arguments hold every required field and values of the declared types,
\* the call passes validation exactly when user_id or project_id is a
\* string that is not empty; (b) when user_id and project_id are each
\* absent or the empty string, the call ends in an error-flagged result and
\* issues no request; (c) when both are strings that are not empty and the
\* other arguments are as in (a), the call is routed and its request
\* carries both.
C16_EitherOrIsTruthiness ==
  ( Called /\ last.name \in EitherOrTools )
  => /\ ( /\ WellTyped(last.name, last.args)
          /\ \A k \in RequiredFields(last.name) : Has(last.args, k) )
        => ( last.valid <=> \/ IsNonEmptyString(Get(last.args, "user_id"))
                            \/ IsNonEmptyString(Get(last.args, "project_id")) )
     /\ ( AbsentOrEmpty(last.args, "user_id") /\ AbsentOrEmpty(last.args, "project_id") )
        => RejectedUnsent
     /\ ( /\ WellTyped(last.name, last.args)
          /\ \A k \in RequiredFields(last.name) : Has(last.args, k)
          /\ IsNonEmptyString(Get(last.args, "user_id"))
          /\ IsNonEmptyString(Get(last.args, "project_id")) )
        => RoutedByTable /\ Forwards("user_id") /\ Forwards("project_id")

\* A call of listSavedFlows with the empty string for user_id and no
\* project_id is rejected by the either/or check.
C16_Witness ==
  /\ Called /\ last.name = "listSavedFlows"
  /\ Get(last.args, "user_id") = Str(<<>>) /\ ~Has(last.args, "project_id")
  /\ RejectedUnsent
  /\ Contains(last.result.text, <<"Either user_id or project_id is required">>)

====
